---- MODULE Spec2Model ----
(***************************************************************************)
(* Model of the retry/poll primitive RetryConfigContext and of the EFS     *)
(* file system resource handlers that wait on remote lifecycle states.     *)
(*                                                                         *)
(* Two threads of control exist while a wait is running: the caller        *)
(* (RetryConfigContext or a resource handler, blocked in                   *)
(* StateChangeConf.WaitForStateContext) and the polling goroutine that     *)
(* WaitForStateContext starts and that runs conf.Refresh.  Time is not     *)
(* measured: a timer may fire at any step at which it is armed, and the    *)
(* context may be cancelled at any step.                                   *)
(***************************************************************************)
EXTENDS Integers, Sequences, FiniteSets, TLC

VARIABLES
    op,               \* the entry point under execution
    cfg,              \* the resource configuration read through d.GetOk
    cpc,              \* position of the caller
    gpc,              \* position of the polling goroutine
    ctxDone,          \* ctx.Done() is closed
    cancelCh,         \* WaitForStateContext: cancelCh is closed
    resCh,            \* WaitForStateContext: buffered channel of Results (cap 1)
    resChClosed,      \* WaitForStateContext: resCh is closed
    result,           \* WaitForStateContext: the goroutine's current Result
    lastResult,       \* WaitForStateContext: the caller's lastResult
    notfoundTick,     \* WaitForStateContext: consecutive refreshes without object
    targetOccurence,  \* WaitForStateContext: consecutive target observations
    waitErr,          \* the error WaitForStateContext returned
    resultErr,        \* RetryConfigContext: the shared error value
    resultErrMu,      \* RetryConfigContext: holder of the mutex
    rerr,             \* RetryConfigContext: the value f returned to Refresh
    ret,              \* RetryConfigContext: the value returned
    nCalls,           \* history: number of calls of f started
    lastF,            \* history: what the last completed call of f returned
    lastRec,          \* history: what the last Refresh recorded in resultErr
    fErrSeen,         \* history: some completed call of f returned an error
    atRet,            \* history: lastF, lastRec, fErrSeen when the caller returned
    lastObs,          \* history: the Describe answer the last status refresh got
    readObs,          \* history: the Describe answer resourceFileSystemRead got
    waitObs,          \* history: lastObs when WaitForStateContext returned
    calls,            \* history: remote API calls issued by the handler
    callErrs,         \* history: the error each of those calls answered
    id,               \* d.Id()
    diags,            \* diagnostics returned by the handler
    fnArgs,           \* arguments of the pure function under evaluation
    fnOut             \* the value it computed

vars == <<op, cfg, cpc, gpc, ctxDone, cancelCh, resCh, resChClosed, result,
          lastResult, notfoundTick, targetOccurence, waitErr, resultErr,
          resultErrMu, rerr, ret, nCalls, lastF, lastRec, fErrSeen, atRet,
          lastObs, readObs, waitObs, calls, callErrs, id, diags, fnArgs,
          fnOut>>

wfsVars == <<cancelCh, resCh, resChClosed, result, lastResult, notfoundTick,
             targetOccurence>>
retryVars == <<resultErr, resultErrMu, rerr, ret, nCalls, lastF, lastRec,
               fErrSeen, atRet>>
waitOut == <<waitErr, waitObs>>
handlerVars == <<lastObs, readObs, calls, callErrs, id, diags>>
fnVars == <<fnArgs, fnOut>>

----------------------------------------------------------------------------
(* Bounds *)

\* calls of f that one run of RetryConfigContext may start
MaxCalls == 3

----------------------------------------------------------------------------
(* Values *)

Ops == {"retry", "create", "read", "update", "delete"}

\* errors a RetryFunc may carry in RetryError.Err
FErrs == {"e1", "e2"}

\* a nil *RetryError
NilRerr == [isNil |-> TRUE, Err |-> "nil", Retryable |-> FALSE]

\* what f may return: nil, or a RetryError built by RetryableError /
\* NonRetryableError around a non-nil error
RetryFuncResults ==
    {NilRerr} \cup {[isNil |-> FALSE, Err |-> e, Retryable |-> b] :
                        e \in FErrs, b \in BOOLEAN}

\* no call of f has completed / nothing has been recorded
NoRerr == [isNil |-> FALSE, Err |-> "none", Retryable |-> FALSE]

ZeroResult == [Result |-> "nil", State |-> "", Error |-> "nil", Done |-> FALSE]

LifeCycleStates == {"creating", "available", "updating", "deleting", "error"}

\* d.GetOk of the attributes resourceFileSystemCreate decides on
Configs ==
    [encrypted : {"unset", "false", "true"},
     kms_key_id : {"", "arn:kms"},
     lifecycle_policy : BOOLEAN,
     protection : {"unset", "nil", "set"}]

\* what resourceFileSystemUpdate reads of the planned change: d.HasChanges of
\* the throughput attributes, of lifecycle_policy and of protection, and
\* d.GetOk("protection")
UpdateConfigs ==
    [throughputChanged : BOOLEAN,
     lifecycleChanged : BOOLEAN,
     protectionChanged : BOOLEAN,
     protection : {"unset", "nil", "set"}]

NoCfg == [encrypted |-> "unset", kms_key_id |-> "", lifecycle_policy |-> FALSE,
          protection |-> "unset"]

----------------------------------------------------------------------------
(* The StateChangeConf values the program builds *)

\* StateChangeConf.NotFoundChecks is left unset: WaitForStateContext uses 20
NotFoundChecks == 20

\* StateChangeConf.ContinuousTargetOccurence is left unset: 1 is used
ContinuousTargetOccurence == 1

\* fault variant: the pending state is not the string Refresh returns
retryStateConf_PendingMisspelt ==
    [Pending |-> {"retryable"}, Target |-> {"success"}]

\* the conf RetryConfigContext builds
retryStateConf == [Pending |-> {"retryableerror"}, Target |-> {"success"}]

\* fault variant: "creating" counted as a target state
availableStateConf_TargetCreating ==
    [Pending |-> {"updating"}, Target |-> {"creating", "available"}]

\* the conf waitFileSystemAvailable builds
availableStateConf == [Pending |-> {"creating", "updating"}, Target |-> {"available"}]

\* fault variant: waiting for a lifecycle state instead of for absence
deletedStateConf_TargetDeleted ==
    [Pending |-> {"available", "deleting"}, Target |-> {"deleted"}]

\* the conf waitFileSystemDeleted builds
deletedStateConf == [Pending |-> {"available", "deleting"}, Target |-> {}]

\* the conf of the wait that entry point o runs
stateConf(o) ==
    CASE o = "retry" -> retryStateConf
      [] o \in {"create", "update"} -> availableStateConf
      [] OTHER -> deletedStateConf

----------------------------------------------------------------------------
(* StateChangeConf.WaitForStateContext: the polling goroutine *)

\* The goroutine's handling of one Refresh return value (res, st, err):
\* the Result it holds afterwards, the counters, and whether it sends that
\* Result and exits (final) or goes round the loop again.
Evaluate(conf, res, st, err, tick, occ) ==
    LET r0 == [Result |-> res, State |-> st, Error |-> err, Done |-> FALSE] IN
    IF err # "nil" THEN
        [result |-> r0, tick |-> tick, occ |-> occ, final |-> TRUE]
    ELSE IF res = "nil" /\ conf.Target = {} THEN
        IF ContinuousTargetOccurence = occ + 1
        THEN [result |-> [r0 EXCEPT !.Done = TRUE], tick |-> tick,
              occ |-> occ + 1, final |-> TRUE]
        ELSE [result |-> r0, tick |-> tick, occ |-> occ + 1, final |-> FALSE]
    ELSE IF res = "nil" THEN
        IF tick + 1 > NotFoundChecks
        THEN [result |-> [r0 EXCEPT !.Error = "NotFoundError"],
              tick |-> tick + 1, occ |-> occ, final |-> TRUE]
        ELSE [result |-> r0, tick |-> tick + 1, occ |-> occ, final |-> FALSE]
    ELSE IF st \in conf.Target /\ ContinuousTargetOccurence = occ + 1 THEN
        [result |-> [r0 EXCEPT !.Done = TRUE], tick |-> 0, occ |-> occ + 1,
         final |-> TRUE]
    ELSE IF st \in conf.Pending THEN
        [result |-> r0, tick |-> 0, occ |-> 0, final |-> FALSE]
    ELSE IF st \in conf.Target THEN
        [result |-> r0, tick |-> 0, occ |-> occ + 1, final |-> FALSE]
    ELSE IF conf.Pending # {} THEN
        [result |-> [r0 EXCEPT !.Error = "UnexpectedStateError"], tick |-> 0,
         occ |-> occ, final |-> TRUE]
    ELSE [result |-> r0, tick |-> 0, occ |-> occ, final |-> FALSE]

\* the goroutine takes the Refresh return value (res, st, err)
AfterRefresh(res, st, err) ==
    LET e == Evaluate(stateConf(op), res, st, err, notfoundTick, targetOccurence) IN
    /\ result' = e.result
    /\ notfoundTick' = e.tick
    /\ targetOccurence' = e.occ
    /\ gpc' = IF e.final THEN "g_final" ELSE "g_send"

\* select: time.After(conf.Delay) fires
DelayElapsed ==
    /\ gpc = "g_delay"
    /\ gpc' = "g_send"
    /\ UNCHANGED <<op, cfg, fnVars, cpc, ctxDone, wfsVars, waitOut, retryVars, handlerVars>>

\* select: cancelCh is closed during the initial delay; return, close(resCh)
DelayCancelled ==
    /\ gpc = "g_delay"
    /\ cancelCh
    /\ gpc' = "g_exit"
    /\ resChClosed' = TRUE
    /\ UNCHANGED <<op, cfg, fnVars, cpc, ctxDone, cancelCh, resCh, result, lastResult,
                   notfoundTick, targetOccurence, waitOut, retryVars, handlerVars>>

\* loop top: resCh <- result (blocks while the buffer is full)
SendResult ==
    /\ gpc = "g_send"
    /\ Len(resCh) = 0
    /\ resCh' = <<result>>
    /\ gpc' = "g_wait"
    /\ UNCHANGED <<op, cfg, fnVars, cpc, ctxDone, cancelCh, resChClosed, result,
                   lastResult, notfoundTick, targetOccurence, waitOut,
                   retryVars, handlerVars>>

\* select: time.After(wait) fires; the goroutine goes on to conf.Refresh()
WaitElapsed ==
    /\ gpc = "g_wait"
    /\ gpc' = "g_refresh"
    /\ UNCHANGED <<op, cfg, fnVars, cpc, ctxDone, wfsVars, waitOut, retryVars, handlerVars>>

\* select: cancelCh is closed; return, close(resCh)
WaitCancelled ==
    /\ gpc = "g_wait"
    /\ cancelCh
    /\ gpc' = "g_exit"
    /\ resChClosed' = TRUE
    /\ UNCHANGED <<op, cfg, fnVars, cpc, ctxDone, cancelCh, resCh, result, lastResult,
                   notfoundTick, targetOccurence, waitOut, retryVars, handlerVars>>

\* resCh <- result; return, close(resCh): the Result that ends the polling
SendFinal ==
    /\ gpc = "g_final"
    /\ Len(resCh) = 0
    /\ resCh' = <<result>>
    /\ resChClosed' = TRUE
    /\ gpc' = "g_exit"
    /\ UNCHANGED <<op, cfg, fnVars, cpc, ctxDone, cancelCh, result, lastResult,
                   notfoundTick, targetOccurence, waitOut, retryVars, handlerVars>>

----------------------------------------------------------------------------
(* StateChangeConf.WaitForStateContext: the caller *)

\* go func() ...: the caller starts the goroutine and enters its select loop
StartWait ==
    /\ gpc' = "g_delay"
    /\ cancelCh' = FALSE
    /\ resCh' = <<>>
    /\ resChClosed' = FALSE
    /\ result' = ZeroResult
    /\ lastResult' = ZeroResult
    /\ notfoundTick' = 0
    /\ targetOccurence' = 0

\* WaitForStateContext returns err to the caller
WaitReturns(err) ==
    /\ waitErr' = err
    /\ waitObs' = lastObs
    /\ cpc' = "waited"

\* case r, ok := <-resCh, with a Result in the buffer
Recv ==
    /\ cpc = "c_select"
    /\ Len(resCh) > 0
    /\ resCh' = Tail(resCh)
    /\ IF Head(resCh).Done
       THEN WaitReturns(Head(resCh).Error) /\ UNCHANGED lastResult
       ELSE lastResult' = Head(resCh) /\ UNCHANGED <<cpc, waitOut>>
    /\ UNCHANGED <<op, cfg, fnVars, gpc, ctxDone, cancelCh, resChClosed, result,
                   notfoundTick, targetOccurence, retryVars, handlerVars>>

\* case r, ok := <-resCh with !ok: return lastResult.Result, lastResult.Error
RecvClosed ==
    /\ cpc = "c_select"
    /\ Len(resCh) = 0
    /\ resChClosed
    /\ WaitReturns(lastResult.Error)
    /\ UNCHANGED <<op, cfg, fnVars, gpc, ctxDone, wfsVars, retryVars, handlerVars>>

\* case <-ctx.Done(): close(cancelCh); return nil, ctx.Err()
CtxCancelled ==
    /\ cpc = "c_select"
    /\ ctxDone
    /\ cancelCh' = TRUE
    /\ WaitReturns("ctxErr")
    /\ UNCHANGED <<op, cfg, fnVars, gpc, ctxDone, resCh, resChClosed, result, lastResult,
                   notfoundTick, targetOccurence, retryVars, handlerVars>>

\* case <-timeout: close(cancelCh) and start the refresh grace period
Timeout ==
    /\ cpc = "c_select"
    /\ cancelCh' = TRUE
    /\ cpc' = "c_grace"
    /\ UNCHANGED <<op, cfg, fnVars, gpc, ctxDone, resCh, resChClosed, result, lastResult,
                   notfoundTick, targetOccurence, waitOut, retryVars, handlerVars>>

\* grace period, case r, ok := <-resCh with a Result in the buffer
GraceRecv ==
    /\ cpc = "c_grace"
    /\ Len(resCh) > 0
    /\ resCh' = Tail(resCh)
    /\ IF Head(resCh).Done
       THEN WaitReturns(Head(resCh).Error) /\ UNCHANGED lastResult
       ELSE lastResult' = Head(resCh) /\ UNCHANGED <<cpc, waitOut>>
    /\ UNCHANGED <<op, cfg, fnVars, gpc, ctxDone, cancelCh, resChClosed, result,
                   notfoundTick, targetOccurence, retryVars, handlerVars>>

\* grace period, !ok: the goroutine returned; break; return nil, &TimeoutError{}
GraceRecvClosed ==
    /\ cpc = "c_grace"
    /\ Len(resCh) = 0
    /\ resChClosed
    /\ WaitReturns("TimeoutError")
    /\ UNCHANGED <<op, cfg, fnVars, gpc, ctxDone, wfsVars, retryVars, handlerVars>>

\* grace period, case <-ctx.Done(): break; return nil, &TimeoutError{}
GraceCtxCancelled ==
    /\ cpc = "c_grace"
    /\ ctxDone
    /\ WaitReturns("TimeoutError")
    /\ UNCHANGED <<op, cfg, fnVars, gpc, ctxDone, wfsVars, retryVars, handlerVars>>

\* grace period, case <-timeout: break; return nil, &TimeoutError{}
GraceTimeout ==
    /\ cpc = "c_grace"
    /\ WaitReturns("TimeoutError")
    /\ UNCHANGED <<op, cfg, fnVars, gpc, ctxDone, wfsVars, retryVars, handlerVars>>

\* the context handed to the entry point is cancelled
Cancel ==
    /\ ~ctxDone
    /\ cpc \notin {"returned"}
    /\ ctxDone' = TRUE
    /\ UNCHANGED <<op, cfg, fnVars, cpc, gpc, wfsVars, waitOut, retryVars, handlerVars>>

----------------------------------------------------------------------------
(* RetryConfigContext *)

\* fault variant: no mutual exclusion
CanLock_Always(mu) == TRUE

\* resultErrMu.Lock() succeeds only while nobody holds the mutex
CanLock(mu) == mu = "none"

\* fault variant: every error is treated as retryable
RetryRefresh_AllRetryable(r) ==
    IF r.isNil THEN [store |-> "nil", res |-> "42", st |-> "success", err |-> "nil"]
    ELSE [store |-> r.Err, res |-> "42", st |-> "retryableerror", err |-> "nil"]

\* the Refresh closure, after f returned r: the value it stores in resultErr
\* and the (result, state, error) it returns
RetryRefresh(r) ==
    IF r.isNil THEN [store |-> "nil", res |-> "42", st |-> "success", err |-> "nil"]
    ELSE IF r.Retryable
    THEN [store |-> r.Err, res |-> "42", st |-> "retryableerror", err |-> "nil"]
    ELSE [store |-> r.Err, res |-> "nil", st |-> "quit", err |-> r.Err]

\* fault variant: the wait error is dropped
RetryReturnValue_OnlyResultErr(rErr, wErr) == rErr

\* fault variant: the wait error takes precedence
RetryReturnValue_WaitErrFirst(rErr, wErr) == IF wErr # "nil" THEN wErr ELSE rErr

\* the value RetryConfigContext returns, from resultErr and waitErr
RetryReturnValue(rErr, wErr) == IF rErr = "nil" THEN wErr ELSE rErr

\* RetryConfigContext up to c.WaitForStateContext(ctx) starting its goroutine
RetryStart ==
    /\ op = "retry"
    /\ cpc = "start"
    /\ StartWait
    /\ cpc' = "c_select"
    /\ UNCHANGED <<op, cfg, fnVars, ctxDone, waitOut, retryVars, handlerVars>>

\* Refresh: rerr := f() is entered
CallF ==
    /\ op = "retry"
    /\ gpc = "g_refresh"
    /\ nCalls < MaxCalls
    /\ nCalls' = nCalls + 1
    /\ gpc' = "g_inF"
    /\ UNCHANGED <<op, cfg, fnVars, cpc, ctxDone, wfsVars, waitOut, resultErr,
                   resultErrMu, rerr, ret, lastF, lastRec, fErrSeen, atRet,
                   handlerVars>>

\* Refresh: f returns
FReturns ==
    /\ gpc = "g_inF"
    /\ \E r \in RetryFuncResults :
          /\ rerr' = r
          /\ lastF' = r
          /\ fErrSeen' = (fErrSeen \/ ~r.isNil)
    /\ gpc' = "g_lock"
    /\ UNCHANGED <<op, cfg, fnVars, cpc, ctxDone, wfsVars, waitOut, resultErr,
                   resultErrMu, ret, nCalls, lastRec, atRet, handlerVars>>

\* Refresh: resultErrMu.Lock()
RefreshLock ==
    /\ gpc = "g_lock"
    /\ CanLock(resultErrMu)
    /\ resultErrMu' = "poller"
    /\ gpc' = "g_crit"
    /\ UNCHANGED <<op, cfg, fnVars, cpc, ctxDone, wfsVars, waitOut, resultErr, rerr,
                   ret, nCalls, lastF, lastRec, fErrSeen, atRet, handlerVars>>

\* Refresh: resultErr is written, the closure returns (deferred Unlock) and
\* the goroutine takes its return value
RefreshStore ==
    /\ gpc = "g_crit"
    /\ LET r == RetryRefresh(rerr) IN
          /\ resultErr' = r.store
          /\ AfterRefresh(r.res, r.st, r.err)
    /\ lastRec' = rerr
    /\ resultErrMu' = "none"
    /\ UNCHANGED <<op, cfg, fnVars, cpc, ctxDone, cancelCh, resCh, resChClosed,
                   lastResult, waitOut, rerr, ret, nCalls, lastF, fErrSeen,
                   atRet, handlerVars>>

\* after the wait: resultErrMu.Lock()
RetryLock ==
    /\ op = "retry"
    /\ cpc = "waited"
    /\ CanLock(resultErrMu)
    /\ resultErrMu' = "caller"
    /\ cpc' = "c_crit"
    /\ UNCHANGED <<op, cfg, fnVars, gpc, ctxDone, wfsVars, waitOut, resultErr, rerr,
                   ret, nCalls, lastF, lastRec, fErrSeen, atRet, handlerVars>>

\* resultErr is read and RetryConfigContext returns (deferred Unlock)
RetryReturn ==
    /\ cpc = "c_crit"
    /\ ret' = RetryReturnValue(resultErr, waitErr)
    /\ atRet' = [f |-> lastF, rec |-> lastRec, errSeen |-> fErrSeen]
    /\ resultErrMu' = "none"
    /\ cpc' = "returned"
    /\ UNCHANGED <<op, cfg, fnVars, gpc, ctxDone, wfsVars, waitOut, resultErr, rerr,
                   nCalls, lastF, lastRec, fErrSeen, handlerVars>>

----------------------------------------------------------------------------
(* EFS file system: finders and the status refresh *)

\* what DescribeFileSystemsPagesWithContext may answer: an error code, or
\* the lifecycle states of the file systems on its pages
DescribeOutputs ==
    {[err |-> e, systems |-> <<>>] : e \in {"FileSystemNotFound", "InternalServerError"}}
    \cup {[err |-> "nil", systems |-> <<>>]}
    \cup {[err |-> "nil", systems |-> <<s>>] : s \in LifeCycleStates}
    \cup {[err |-> "nil", systems |-> <<"available", "available">>]}

\* tfresource.NotFound(err)
NotFound(err) == err = "NotFoundError"

findFileSystems(out) ==
    IF out.err = "FileSystemNotFound" THEN [output |-> <<>>, err |-> "NotFoundError"]
    ELSE IF out.err # "nil" THEN [output |-> <<>>, err |-> out.err]
    ELSE [output |-> out.systems, err |-> "nil"]

\* findFileSystem with tfresource.AssertSinglePtrResult
findFileSystem(out) ==
    LET r == findFileSystems(out) IN
    IF r.err # "nil" THEN [fs |-> "nil", err |-> r.err]
    ELSE IF Len(r.output) = 0 THEN [fs |-> "nil", err |-> "NotFoundError"]
    ELSE IF Len(r.output) > 1 THEN [fs |-> "nil", err |-> "TooManyResultsError"]
    ELSE [fs |-> r.output[1], err |-> "nil"]

FindFileSystemByID(out) == findFileSystem(out)

\* fault variant: every finder error is taken for not-found
statusFileSystemLifeCycleState_SwallowsErrors(out) ==
    LET f == FindFileSystemByID(out) IN
    IF f.err # "nil" THEN [res |-> "nil", st |-> "", err |-> "nil"]
    ELSE [res |-> "obj", st |-> f.fs, err |-> "nil"]

\* the closure statusFileSystemLifeCycleState returns, on one Describe answer
statusFileSystemLifeCycleState(out) ==
    LET f == FindFileSystemByID(out) IN
    IF NotFound(f.err) THEN [res |-> "nil", st |-> "", err |-> "nil"]
    ELSE IF f.err # "nil" THEN [res |-> "nil", st |-> "", err |-> f.err]
    ELSE [res |-> "obj", st |-> f.fs, err |-> "nil"]

\* no pure function is under evaluation
NoFn == "none"

\* no status refresh has run
NoObs == [err |-> "none", systems |-> <<>>]

\* conf.Refresh() of waitFileSystemAvailable and waitFileSystemDeleted
RefreshStatus ==
    /\ op \in {"create", "update", "delete"}
    /\ gpc = "g_refresh"
    /\ \E out \in DescribeOutputs :
          LET s == statusFileSystemLifeCycleState(out) IN
          /\ lastObs' = out
          /\ AfterRefresh(s.res, s.st, s.err)
    /\ UNCHANGED <<op, cfg, fnVars, cpc, ctxDone, cancelCh, resCh, resChClosed,
                   lastResult, waitOut, retryVars, readObs, calls, callErrs,
                   id, diags>>

----------------------------------------------------------------------------
(* EFS file system: resource handlers *)

\* d.GetOk("encrypted"): the value, and whether it is set and non-zero
GetOkEncrypted(c) ==
    [v |-> (c.encrypted = "true"), ok |-> (c.encrypted = "true")]

\* d.GetOk("kms_key_id")
GetOkKmsKeyId(c) == [v |-> c.kms_key_id, ok |-> (c.kms_key_id # "")]

\* fault variant: only an encrypted attribute that GetOk reports as set is looked at
CreateRejects_OnlyWhenSet(c) ==
    GetOkEncrypted(c).ok /\ GetOkEncrypted(c).v = FALSE /\ GetOkKmsKeyId(c).ok

\* the check of resourceFileSystemCreate before its first remote call
CreateRejects(c) == GetOkEncrypted(c).v = FALSE /\ GetOkKmsKeyId(c).ok

\* GetOk("protection") is ok, the list is non-empty and v[0] != nil
HasProtection(c) == c.protection = "set"

\* the error value a failed remote call answers
ErrOf(failed) == IF failed THEN "InternalServerError" ELSE "nil"

\* d.IsNewResource(): set by the SDK while Create runs
IsNewResource(o) == o = "create"

\* fault variant: a missing file system is reconciled for a new resource too
resourceFileSystemRead_IgnoresIsNew(isNew, curId, out, lcErr) ==
    LET f == FindFileSystemByID(out) IN
    IF NotFound(f.err)
    THEN [calls |-> <<"DescribeFileSystems">>, errs |-> <<out.err>>,
          id |-> "", diags |-> "nil"]
    ELSE IF f.err # "nil"
    THEN [calls |-> <<"DescribeFileSystems">>, errs |-> <<out.err>>,
          id |-> curId, diags |-> "reading EFS file system"]
    ELSE [calls |-> <<"DescribeFileSystems", "DescribeLifecycleConfiguration">>,
          errs |-> <<out.err, ErrOf(lcErr)>>, id |-> curId,
          diags |-> IF lcErr
                    THEN "reading EFS file system lifecycle configuration"
                    ELSE "nil"]

\* resourceFileSystemRead on the answers of DescribeFileSystems and
\* DescribeLifecycleConfiguration: the calls it issues, the errors they
\* answer, the ID and the diagnostics it leaves
resourceFileSystemRead(isNew, curId, out, lcErr) ==
    LET f == FindFileSystemByID(out) IN
    IF ~isNew /\ NotFound(f.err)
    THEN [calls |-> <<"DescribeFileSystems">>, errs |-> <<out.err>>,
          id |-> "", diags |-> "nil"]
    ELSE IF f.err # "nil"
    THEN [calls |-> <<"DescribeFileSystems">>, errs |-> <<out.err>>,
          id |-> curId, diags |-> "reading EFS file system"]
    ELSE IF lcErr
    THEN [calls |-> <<"DescribeFileSystems", "DescribeLifecycleConfiguration">>,
          errs |-> <<out.err, ErrOf(lcErr)>>,
          id |-> curId, diags |-> "reading EFS file system lifecycle configuration"]
    ELSE [calls |-> <<"DescribeFileSystems", "DescribeLifecycleConfiguration">>,
          errs |-> <<out.err, ErrOf(lcErr)>>,
          id |-> curId, diags |-> "nil"]

\* resourceFileSystemRead as the entry point (refresh of an existing resource)
ReadRun ==
    /\ op = "read"
    /\ cpc = "start"
    /\ cpc' = "returned"
    /\ \E out \in DescribeOutputs, lcErr \in BOOLEAN :
          LET rd == resourceFileSystemRead(IsNewResource(op), id, out, lcErr) IN
          /\ readObs' = out
          /\ calls' = calls \o rd.calls
          /\ callErrs' = callErrs \o rd.errs
          /\ id' = rd.id
          /\ diags' = rd.diags
    /\ UNCHANGED <<op, cfg, fnVars, gpc, ctxDone, wfsVars, waitOut, retryVars,
                   lastObs>>

\* resourceFileSystemCreate up to waitFileSystemAvailable starting to poll
CreateStart ==
    /\ op = "create"
    /\ cpc = "start"
    /\ IF CreateRejects(cfg)
       THEN /\ diags' = "encrypted must be set to true when kms_key_id is specified"
            /\ cpc' = "returned"
            /\ UNCHANGED <<gpc, wfsVars, calls, callErrs, id>>
       ELSE \E apiErr \in BOOLEAN :
            /\ calls' = Append(calls, "CreateFileSystem")
            /\ callErrs' = Append(callErrs, ErrOf(apiErr))
            /\ IF apiErr
               THEN /\ diags' = "creating EFS file system"
                    /\ cpc' = "returned"
                    /\ UNCHANGED <<gpc, wfsVars, id>>
               ELSE /\ id' = "fs-1"
                    /\ StartWait
                    /\ cpc' = "c_select"
                    /\ UNCHANGED diags
    /\ UNCHANGED <<op, cfg, fnVars, ctxDone, waitOut, retryVars, lastObs, readObs>>

\* resourceFileSystemCreate after waitFileSystemAvailable returned
CreateFinish ==
    /\ op = "create"
    /\ cpc = "waited"
    /\ cpc' = "returned"
    /\ IF waitErr # "nil"
       THEN /\ diags' = "waiting for EFS file system create"
            /\ UNCHANGED <<calls, callErrs, id, readObs>>
       ELSE \E putErr \in (IF cfg.lifecycle_policy THEN BOOLEAN ELSE {FALSE}),
               protErr \in (IF HasProtection(cfg) THEN BOOLEAN ELSE {FALSE}),
               out \in DescribeOutputs, lcErr \in BOOLEAN :
            LET c1 == IF cfg.lifecycle_policy
                      THEN Append(calls, "PutLifecycleConfiguration") ELSE calls
                e1 == IF cfg.lifecycle_policy
                      THEN Append(callErrs, ErrOf(putErr)) ELSE callErrs
                c2 == IF HasProtection(cfg)
                      THEN Append(c1, "UpdateFileSystemProtection") ELSE c1
                e2 == IF HasProtection(cfg)
                      THEN Append(e1, ErrOf(protErr)) ELSE e1
                rd == resourceFileSystemRead(IsNewResource(op), id, out, lcErr)
            IN  IF putErr
                THEN /\ calls' = c1
                     /\ callErrs' = e1
                     /\ diags' = "putting EFS file system lifecycle configuration"
                     /\ UNCHANGED <<id, readObs>>
                ELSE IF protErr
                THEN /\ calls' = c2
                     /\ callErrs' = e2
                     /\ diags' = "updating EFS file system protection"
                     /\ UNCHANGED <<id, readObs>>
                ELSE /\ calls' = c2 \o rd.calls
                     /\ callErrs' = e2 \o rd.errs
                     /\ readObs' = out
                     /\ diags' = rd.diags
                     /\ id' = rd.id
    /\ UNCHANGED <<op, cfg, fnVars, gpc, ctxDone, wfsVars, waitOut, retryVars, lastObs>>

\* d.HasChanges("provisioned_throughput_in_mibps", "throughput_mode")
HasThroughputChanges(c) == c.throughputChanged

\* fault variant: the lifecycle configuration is also put when only the
\* throughput changed
HasLifecycleChange_OrThroughput(c) == c.lifecycleChanged \/ c.throughputChanged

\* d.HasChange("lifecycle_policy")
HasLifecycleChange(c) == c.lifecycleChanged

\* d.HasChanges("protection") and the protection block is present
UpdatesProtection(c) == c.protectionChanged /\ HasProtection(c)

\* resourceFileSystemUpdate from the lifecycle configuration step to its return
UpdateRest ==
    \E putErr \in (IF HasLifecycleChange(cfg) THEN BOOLEAN ELSE {FALSE}),
       protErr \in (IF UpdatesProtection(cfg) THEN BOOLEAN ELSE {FALSE}),
       out \in DescribeOutputs, lcErr \in BOOLEAN :
    LET c1 == IF HasLifecycleChange(cfg)
              THEN Append(calls, "PutLifecycleConfiguration") ELSE calls
        e1 == IF HasLifecycleChange(cfg)
              THEN Append(callErrs, ErrOf(putErr)) ELSE callErrs
        c2 == IF UpdatesProtection(cfg)
              THEN Append(c1, "UpdateFileSystemProtection") ELSE c1
        e2 == IF UpdatesProtection(cfg)
              THEN Append(e1, ErrOf(protErr)) ELSE e1
        rd == resourceFileSystemRead(IsNewResource(op), id, out, lcErr)
    IN  IF putErr
        THEN /\ calls' = c1
             /\ callErrs' = e1
             /\ diags' = "putting EFS file system lifecycle configuration"
             /\ UNCHANGED <<id, readObs>>
        ELSE IF protErr
        THEN /\ calls' = c2
             /\ callErrs' = e2
             /\ diags' = "updating EFS file system protection"
             /\ UNCHANGED <<id, readObs>>
        ELSE /\ calls' = c2 \o rd.calls
             /\ callErrs' = e2 \o rd.errs
             /\ readObs' = out
             /\ diags' = rd.diags
             /\ id' = rd.id

\* resourceFileSystemUpdate with a throughput change: UpdateFileSystem, up
\* to waitFileSystemAvailable starting to poll
UpdateThroughput ==
    \E apiErr \in BOOLEAN :
       /\ calls' = Append(calls, "UpdateFileSystem")
       /\ callErrs' = Append(callErrs, ErrOf(apiErr))
       /\ IF apiErr
          THEN /\ diags' = "updating EFS file system"
               /\ cpc' = "returned"
               /\ UNCHANGED <<gpc, wfsVars>>
          ELSE /\ StartWait
               /\ cpc' = "c_select"
               /\ UNCHANGED diags
       /\ UNCHANGED <<id, readObs>>

\* resourceFileSystemUpdate from its entry: to the start of the wait when the
\* throughput changed, to its return otherwise
UpdateStart ==
    /\ op = "update"
    /\ cpc = "start"
    /\ IF HasThroughputChanges(cfg)
       THEN UpdateThroughput
       ELSE /\ UpdateRest
            /\ cpc' = "returned"
            /\ UNCHANGED <<gpc, wfsVars>>
    /\ UNCHANGED <<op, cfg, fnVars, ctxDone, waitOut, retryVars, lastObs>>

\* resourceFileSystemUpdate after waitFileSystemAvailable returned
UpdateFinish ==
    /\ op = "update"
    /\ cpc = "waited"
    /\ cpc' = "returned"
    /\ IF waitErr # "nil"
       THEN /\ diags' = "waiting for EFS file system update"
            /\ UNCHANGED <<calls, callErrs, id, readObs>>
       ELSE UpdateRest
    /\ UNCHANGED <<op, cfg, fnVars, gpc, ctxDone, wfsVars, waitOut, retryVars,
                   lastObs>>

\* fault variant: FileSystemNotFound is handled like any other error
IsFileSystemNotFound_Never(apiErr) == FALSE

\* tfawserr.ErrCodeEquals(err, efs.ErrCodeFileSystemNotFound)
IsFileSystemNotFound(apiErr) == apiErr = "FileSystemNotFound"

\* resourceFileSystemDelete up to waitFileSystemDeleted starting to poll
DeleteStart ==
    /\ op = "delete"
    /\ cpc = "start"
    /\ calls' = Append(calls, "DeleteFileSystem")
    /\ \E apiErr \in {"nil", "FileSystemNotFound", "InternalServerError"} :
          /\ callErrs' = Append(callErrs, apiErr)
          /\ IF IsFileSystemNotFound(apiErr)
             THEN /\ diags' = "nil"
                  /\ cpc' = "returned"
                  /\ UNCHANGED <<gpc, wfsVars>>
             ELSE IF apiErr # "nil"
             THEN /\ diags' = "deleting EFS file system"
                  /\ cpc' = "returned"
                  /\ UNCHANGED <<gpc, wfsVars>>
             ELSE /\ StartWait
                  /\ cpc' = "c_select"
                  /\ UNCHANGED diags
    /\ UNCHANGED <<op, cfg, fnVars, ctxDone, waitOut, retryVars, lastObs, readObs, id>>

\* resourceFileSystemDelete after waitFileSystemDeleted returned
DeleteFinish ==
    /\ op = "delete"
    /\ cpc = "waited"
    /\ cpc' = "returned"
    /\ diags' = IF waitErr # "nil" THEN "waiting for EFS file system delete" ELSE "nil"
    /\ UNCHANGED <<op, cfg, fnVars, gpc, ctxDone, wfsVars, waitOut, retryVars,
                   lastObs,
                   readObs, calls, callErrs, id>>

----------------------------------------------------------------------------
(* The state machine *)

\* no entry point has started: nothing polls, nothing has been called
Idle ==
    /\ cpc = "start"
    /\ gpc = "g_none"
    /\ ctxDone = FALSE
    /\ cancelCh = FALSE
    /\ resCh = <<>>
    /\ resChClosed = FALSE
    /\ result = ZeroResult
    /\ lastResult = ZeroResult
    /\ notfoundTick = 0
    /\ targetOccurence = 0
    /\ waitErr = "nil"
    /\ resultErr = "nil"
    /\ resultErrMu = "none"
    /\ rerr = NoRerr
    /\ ret = "none"
    /\ nCalls = 0
    /\ lastF = NoRerr
    /\ lastRec = NoRerr
    /\ fErrSeen = FALSE
    /\ atRet = [f |-> NoRerr, rec |-> NoRerr, errSeen |-> FALSE]
    /\ lastObs = NoObs
    /\ waitObs = NoObs
    /\ readObs = NoObs
    /\ calls = <<>>
    /\ callErrs = <<>>
    /\ diags = "none"

Init ==
    /\ op \in Ops
    /\ cfg \in (IF op = "create" THEN Configs
               ELSE IF op = "update" THEN UpdateConfigs ELSE {NoCfg})
    /\ id = IF op \in {"read", "update", "delete"} THEN "fs-1" ELSE ""
    /\ fnArgs = NoFn
    /\ fnOut = NoFn
    /\ Idle

Next ==
    \/ RetryStart \/ CallF \/ FReturns \/ RefreshLock \/ RefreshStore
    \/ RetryLock \/ RetryReturn
    \/ CreateStart \/ CreateFinish \/ ReadRun \/ DeleteStart \/ DeleteFinish
    \/ UpdateStart \/ UpdateFinish
    \/ RefreshStatus
    \/ DelayElapsed \/ DelayCancelled \/ SendResult \/ WaitElapsed
    \/ WaitCancelled \/ SendFinal
    \/ Recv \/ RecvClosed \/ CtxCancelled \/ Timeout
    \/ GraceRecv \/ GraceRecvClosed \/ GraceCtxCancelled \/ GraceTimeout
    \/ Cancel

Spec == Init /\ [][Next]_vars

----------------------------------------------------------------------------
(* Vocabulary of the properties *)

IsErr(r) == ~r.isNil /\ r.Err \in FErrs
IsRetryable(r) == IsErr(r) /\ r.Retryable
IsFatal(r) == IsErr(r) /\ ~r.Retryable

\* RetryConfigContext has returned
Returned == op = "retry" /\ cpc = "returned"

\* the wait was ended by the timeout or by cancellation of ctx
WaitAborted == waitErr \in {"TimeoutError", "ctxErr"}

\* the goroutine will not enter f (again): it is recording the result of the
\* call that just returned, or sending its last Result, or has exited
PollerLeaving == gpc \in {"g_lock", "g_crit", "g_final", "g_exit"}

----------------------------------------------------------------------------
(* Properties of RetryConfigContext *)

\* C1: RetryConfigContext returns nil only when the last call of f that
\* completed before it returned had returned nil; when that call returned an
\* error, retryable or not, the value returned is not nil.
C1_NilOnlyAfterNil ==
    Returned =>
        /\ (ret = "nil" => atRet.f = NilRerr)
        /\ (IsErr(atRet.f) => ret # "nil")

\* C1 witness: a retryable error, then a call returning nil, then nil returned
C1_Witness ==
    Returned /\ ret = "nil" /\ atRet.errSeen /\ atRet.f = NilRerr /\ nCalls = 2

\* C2 as claimed: once a call of f has returned a non-retryable error no
\* further call of f is made, and RetryConfigContext returns that call's error.
C2_Original ==
    /\ (op = "retry" /\ IsFatal(lastF) => PollerLeaving)
    /\ (Returned /\ IsFatal(atRet.f) => ret = atRet.f.Err)

\* C2 amended: once a call of f has returned a non-retryable error no further
\* call of f is made; RetryConfigContext returns that call's error whenever
\* Refresh recorded it in resultErr before the caller read resultErr, and
\* that fails to happen only when the wait was ended by the timeout or by
\* cancellation while the call was still to be recorded.
C2_FatalStopsAndIsReturned ==
    /\ (op = "retry" /\ IsFatal(lastF) => PollerLeaving)
    /\ (Returned /\ IsFatal(atRet.rec) => ret = atRet.rec.Err)
    /\ (Returned /\ IsFatal(atRet.f) /\ atRet.rec # atRet.f => WaitAborted)

\* C2 witness: two retryable errors precede the non-retryable one returned
C2_Witness ==
    Returned /\ nCalls = 3 /\ IsFatal(atRet.rec) /\ ret = atRet.rec.Err
        /\ ~WaitAborted

\* C4 as claimed: when the wait ended with an error and some call of f has
\* completed with an error, the error of the last completed call of f is
\* returned, not the wait error.
C4_Original ==
    Returned /\ waitErr # "nil" /\ atRet.errSeen =>
        IsErr(atRet.f) /\ ret = atRet.f.Err

\* C4 amended: when the wait ended with an error, RetryConfigContext returns
\* the error last recorded in resultErr if the last call of f recorded before
\* the caller read resultErr returned an error; if that call returned nil, or
\* none was recorded, it returns the wait error.
C4_ResultErrPrecedence ==
    Returned /\ waitErr # "nil" =>
        /\ (IsErr(atRet.rec) => ret = atRet.rec.Err)
        /\ (~IsErr(atRet.rec) => ret = waitErr)

\* C4 witness: the wait timed out after a retryable error, which is returned
C4_Witness ==
    Returned /\ waitErr = "TimeoutError" /\ IsRetryable(atRet.rec)
        /\ ret = atRet.rec.Err

\* C5: when the wait was ended by the timeout or by cancellation and
\* resultErr was never set (in particular when no call of f has completed),
\* RetryConfigContext returns the wait error, which is not nil; and whenever
\* the wait ended with an error the value returned is not nil.
C5_WaitErrorWhenNeverSet ==
    /\ (Returned /\ WaitAborted /\ atRet.rec = NoRerr =>
            ret = waitErr /\ ret # "nil")
    /\ (Returned /\ waitErr # "nil" => ret # "nil")

\* C5 witness: timed out with no call of f completed
C5_Witness ==
    Returned /\ waitErr = "TimeoutError" /\ atRet.f = NoRerr /\ ret = "TimeoutError"

\* C6: resultErr is accessed only with resultErrMu held: the goroutine is
\* between Lock and Unlock of Refresh only as holder of the mutex, the caller
\* is between its Lock and return only as holder, so never both at once.
C6_ResultErrUnderMutex ==
    /\ (gpc = "g_crit" => resultErrMu = "poller")
    /\ (cpc = "c_crit" => resultErrMu = "caller")
    /\ ~(gpc = "g_crit" /\ cpc = "c_crit")

\* C6 witness: the wait timed out with a call of f in flight; that call has
\* returned and Refresh waits for the mutex the caller holds
C6_Witness ==
    cpc = "c_crit" /\ gpc = "g_lock" /\ waitErr = "TimeoutError"
        /\ resultErrMu = "caller"

----------------------------------------------------------------------------
(* RetryConfigContext alone, with the scheduling the Go runtime gives: a    *)
(* runnable goroutine runs, an armed timer of the goroutine fires, a ready  *)
(* receive or an obtainable mutex is taken.  Nothing is assumed about f     *)
(* returning, about the timeout or about ctx.                               *)

InitRetry == Init /\ op = "retry"

NextRetry ==
    \/ RetryStart \/ CallF \/ FReturns \/ RefreshLock \/ RefreshStore
    \/ RetryLock \/ RetryReturn
    \/ DelayElapsed \/ DelayCancelled \/ SendResult \/ WaitElapsed
    \/ WaitCancelled \/ SendFinal
    \/ Recv \/ RecvClosed \/ CtxCancelled \/ Timeout
    \/ GraceRecv \/ GraceRecvClosed \/ GraceCtxCancelled \/ GraceTimeout
    \/ Cancel

RetryFairness ==
    /\ WF_vars(RefreshLock) /\ WF_vars(RefreshStore)
    /\ WF_vars(SendResult) /\ WF_vars(WaitElapsed) /\ WF_vars(CallF)
    /\ WF_vars(SendFinal)
    /\ WF_vars(Recv) /\ WF_vars(RecvClosed)
    /\ WF_vars(GraceRecv) /\ WF_vars(GraceRecvClosed)
    /\ WF_vars(RetryLock) /\ WF_vars(RetryReturn)

SpecRetryLive == InitRetry /\ [][NextRetry]_vars /\ RetryFairness

\* the wait of RetryConfigContext is over
RetryWaitOver == op = "retry" /\ cpc \in {"waited", "c_crit", "returned"}

C3_Safety ==
    /\ (RetryWaitOver /\ ~WaitAborted => lastF = NilRerr \/ IsFatal(lastF))
    /\ (op = "retry" /\ IsRetryable(lastF) /\ ~cancelCh =>
            gpc \notin {"g_final", "g_exit"})
    /\ (op = "retry" /\ lastF = NilRerr => PollerLeaving)
    /\ (Returned /\ atRet.f = NilRerr /\ ~WaitAborted => ret = "nil")

----------------------------------------------------------------------------
(* Properties of the EFS file system handlers and wait helpers *)

\* the handler's wait helper has run and has returned
WaitOver(o) == op = o /\ cpc \in {"waited", "returned"} /\ gpc # "g_none"

\* the remote answer o says that the file system does not exist
ObsNotFound(o) ==
    o.err = "FileSystemNotFound" \/ (o.err = "nil" /\ Len(o.systems) = 0)

\* the remote answer o is an error other than not-found
ObsError(o) ==
    o.err = "InternalServerError" \/ (o.err = "nil" /\ Len(o.systems) > 1)

\* the remote answer o describes the one file system, in lifecycle state s
ObsState(o, s) == o.err = "nil" /\ o.systems = <<s>>

ObsStateIn(o, S) == \E s \in S : ObsState(o, s)

\* the lifecycle state o describes, "" if none
StateOf(o) == IF o.err = "nil" /\ Len(o.systems) = 1 THEN o.systems[1] ELSE ""

\* the goroutine holds a Result that keeps it polling
KeepsPolling ==
    /\ result = [Result |-> "obj", State |-> StateOf(lastObs), Error |-> "nil",
                 Done |-> FALSE]
    /\ gpc # "g_final"
    /\ (gpc = "g_exit" => cancelCh)

\* the goroutine has left its loop with an error, and the wait, once over,
\* has returned an error
EndsInError(o) ==
    /\ gpc \in {"g_final", "g_exit"}
    /\ result.Error # "nil"
    /\ (WaitOver(o) => waitErr # "nil")

\* remote calls resourceFileSystemCreate issues after waitFileSystemAvailable
LaterCalls ==
    {"PutLifecycleConfiguration", "UpdateFileSystemProtection",
     "DescribeFileSystems", "DescribeLifecycleConfiguration"}

IssuedLater == \E i \in 1..Len(calls) : calls[i] \in LaterCalls

\* C7: resourceFileSystemCreate issues PutLifecycleConfiguration,
\* UpdateFileSystemProtection and the calls of the final read only after
\* CreateFileSystem succeeded and the wait returned without error on an
\* observation of lifecycle state "available"; when CreateFileSystem failed or
\* the wait failed, none of them is issued and an error diagnostic is returned.
C7_CreateWaitsBeforeLaterCalls ==
    op = "create" =>
        /\ (IssuedLater =>
                /\ calls[1] = "CreateFileSystem"
                /\ id = "fs-1"
                /\ waitErr = "nil"
                /\ ObsState(waitObs, "available")
                /\ ObsState(lastObs, "available"))
        /\ (cpc = "returned" /\ ~CreateRejects(cfg) /\ (id = "" \/ waitErr # "nil") =>
                /\ ~IssuedLater
                /\ diags \notin {"nil", "none"})

\* C7 witness: create, wait, lifecycle configuration, protection and read
C7_Witness ==
    /\ op = "create" /\ cpc = "returned" /\ diags = "nil"
    /\ calls = <<"CreateFileSystem", "PutLifecycleConfiguration",
                 "UpdateFileSystemProtection", "DescribeFileSystems",
                 "DescribeLifecycleConfiguration">>

\* C8: waitFileSystemAvailable returns without error only if the last
\* lifecycle state observed is "available"; after observing "creating" or
\* "updating" the goroutine keeps polling; after observing any other
\* lifecycle state, or a refresh error other than not-found, the goroutine
\* leaves its loop with an error and the wait returns an error.
C8_WaitAvailable ==
    op = "create" =>
        /\ (WaitOver("create") /\ waitErr = "nil" =>
                ObsState(waitObs, "available"))
        /\ (ObsStateIn(lastObs, {"creating", "updating"}) => KeepsPolling)
        /\ (ObsStateIn(lastObs, {"deleting", "error"}) \/ ObsError(lastObs) =>
                EndsInError("create"))

\* C8 witness: the wait returned an error on observing lifecycle state "error"
C8_Witness ==
    /\ op = "create" /\ cpc = "waited"
    /\ ObsState(waitObs, "error") /\ waitErr = "UnexpectedStateError"

\* C9 as claimed: waitFileSystemDeleted returns without error exactly when
\* the file system was observed as not found; "available" and "deleting" keep
\* it polling, any other lifecycle state makes it return an error.
C9_Original ==
    op = "delete" =>
        /\ (WaitOver("delete") => (waitErr = "nil" <=> ObsNotFound(waitObs)))
        /\ (ObsStateIn(lastObs, {"available", "deleting"}) => KeepsPolling)
        /\ (ObsStateIn(lastObs, {"creating", "updating", "error"}) =>
                EndsInError("delete"))

\* C9 amended: waitFileSystemDeleted returns without error only when the file
\* system was observed as not found; that observation ends the polling, and
\* the wait then returns without error unless cancellation of ctx or the end
\* of the timeout's grace period is taken first, in which case it returns
\* that wait error; "available" and "deleting" keep it polling, any other
\* lifecycle state makes it return an error.
C9_WaitDeleted ==
    op = "delete" =>
        /\ (WaitOver("delete") /\ waitErr = "nil" => ObsNotFound(waitObs))
        /\ (WaitOver("delete") /\ ObsNotFound(waitObs) /\ waitErr # "nil" =>
                WaitAborted)
        /\ (ObsNotFound(lastObs) =>
                result.Done /\ result.Error = "nil" /\ gpc \in {"g_final", "g_exit"})
        /\ (ObsStateIn(lastObs, {"available", "deleting"}) => KeepsPolling)
        /\ (ObsStateIn(lastObs, {"creating", "updating", "error"}) =>
                EndsInError("delete"))

\* C9 witness: the file system was observed as not found and the wait
\* returned without error
C9_Witness ==
    WaitOver("delete") /\ waitObs.err = "FileSystemNotFound" /\ waitErr = "nil"
        /\ diags = "nil"

\* kms_key_id is specified and encrypted is false or unset
KmsWithoutEncryption(c) == c.kms_key_id # "" /\ c.encrypted # "true"

\* C10: with kms_key_id specified and encrypted not true,
\* resourceFileSystemCreate returns the error "encrypted must be set to true
\* when kms_key_id is specified", has called no remote API, has started no
\* polling and leaves the resource ID unset.
C10_CreateRejectsKmsWithoutEncryption ==
    op = "create" /\ KmsWithoutEncryption(cfg) /\ cpc # "start" =>
        /\ cpc = "returned"
        /\ diags = "encrypted must be set to true when kms_key_id is specified"
        /\ calls = <<>>
        /\ gpc = "g_none"
        /\ lastObs = NoObs
        /\ id = ""

\* C10 witness: kms_key_id given, encrypted left unset, create has returned
C10_Witness ==
    /\ op = "create" /\ cpc = "returned"
    /\ cfg.kms_key_id = "arn:kms" /\ cfg.encrypted = "unset"
    /\ diags = "encrypted must be set to true when kms_key_id is specified"

----------------------------------------------------------------------------
(* resourceFileSystemRead *)

\* resourceFileSystemRead has run and has returned
ReadOver == cpc = "returned" /\ readObs # NoObs

\* C11: when resourceFileSystemRead finds no file system (the FileSystemNotFound
\* error code or an empty result) and the resource is not new, it returns no
\* error and the resource ID is cleared; when the resource is new, it returns
\* the error "reading EFS file system" and the ID is kept.
C11_ReadReconcilesDeleted ==
    ReadOver /\ ObsNotFound(readObs) =>
        IF IsNewResource(op)
        THEN diags = "reading EFS file system" /\ id = "fs-1"
        ELSE diags = "nil" /\ id = ""

\* C11 witness: a refresh of an existing resource got an empty result and
\* cleared the ID
C11_Witness ==
    /\ op = "read" /\ ReadOver
    /\ readObs = [err |-> "nil", systems |-> <<>>]
    /\ id = "" /\ diags = "nil"

\* the read at the end of Create found no file system and kept the ID
C11_WitnessNew ==
    /\ op = "create" /\ ReadOver /\ ObsNotFound(readObs)
    /\ id = "fs-1" /\ diags = "reading EFS file system"

----------------------------------------------------------------------------
(* resourceFileSystemDelete *)

\* resourceFileSystemDelete has returned
DeleteOver == op = "delete" /\ cpc = "returned"

\* C12: when DeleteFileSystem answers FileSystemNotFound,
\* resourceFileSystemDelete returns no error and has started no wait; when it
\* answers another error, the handler returns "deleting EFS file system" and
\* has started no wait; otherwise the wait was started, and the handler
\* returns no error only if waitFileSystemDeleted returned without error on
\* an observation of the file system as not found.
C12_DeleteIdempotent ==
    DeleteOver =>
        /\ calls = <<"DeleteFileSystem">>
        /\ IF callErrs[1] = "FileSystemNotFound"
           THEN diags = "nil" /\ gpc = "g_none" /\ lastObs = NoObs
           ELSE IF callErrs[1] # "nil"
           THEN /\ diags = "deleting EFS file system"
                /\ gpc = "g_none" /\ lastObs = NoObs
           ELSE /\ gpc # "g_none"
                /\ diags \in {"nil", "waiting for EFS file system delete"}
                /\ (diags = "nil" <=> waitErr = "nil")
                /\ (diags = "nil" => ObsNotFound(waitObs))

\* C12 witness: DeleteFileSystem succeeded, the wait saw the file system
\* gone, and the handler returned no error
C12_Witness ==
    /\ DeleteOver /\ callErrs = <<"nil">>
    /\ ObsNotFound(waitObs) /\ diags = "nil"

\* the file system was already deleted: success without any polling
C12_WitnessAlreadyDeleted ==
    /\ DeleteOver /\ callErrs = <<"FileSystemNotFound">>
    /\ diags = "nil" /\ gpc = "g_none"

----------------------------------------------------------------------------
(* resourceFileSystemUpdate *)

\* the remote calls of resourceFileSystemUpdate, in the order of its steps
UpdateOrder ==
    <<"UpdateFileSystem", "PutLifecycleConfiguration",
      "UpdateFileSystemProtection", "DescribeFileSystems",
      "DescribeLifecycleConfiguration">>

\* call c has been issued
Issued(c) == \E i \in 1..Len(calls) : calls[i] = c

\* the calls issued are pairwise distinct and follow UpdateOrder
InUpdateOrder ==
    \A i, j \in 1..Len(calls) :
        i < j => \E k, l \in 1..Len(UpdateOrder) :
                    k < l /\ calls[i] = UpdateOrder[k] /\ calls[j] = UpdateOrder[l]

\* a call after UpdateFileSystem has been issued
IssuedAfterUpdate == Len(calls) > 1 /\ calls[1] = "UpdateFileSystem"

\* the throughput step failed: UpdateFileSystem or the wait that follows it
ThroughputStepFailed ==
    diags \in {"updating EFS file system", "waiting for EFS file system update"}

\* C13: resourceFileSystemUpdate issues its remote calls in the order
\* UpdateFileSystem, PutLifecycleConfiguration, UpdateFileSystemProtection,
\* the calls of the read.  UpdateFileSystem is called if and only if the
\* throughput attributes changed, and any later call is issued only after the
\* wait returned without error on an observation of "available".
\* PutLifecycleConfiguration is called if and only if lifecycle_policy changed
\* and the throughput step did not fail.  Every call but the last one
\* succeeded, and a failed step or wait leaves an error diagnostic and no read.
C13_UpdateStepsInOrder ==
    op = "update" /\ cpc # "start" =>
        /\ InUpdateOrder
        /\ (Issued("UpdateFileSystem") <=> cfg.throughputChanged)
        /\ (IssuedAfterUpdate =>
                /\ callErrs[1] = "nil"
                /\ cpc = "returned" /\ waitErr = "nil"
                /\ ObsState(waitObs, "available"))
        /\ (cpc = "returned" =>
                /\ (Issued("PutLifecycleConfiguration") <=>
                        cfg.lifecycleChanged /\ ~ThroughputStepFailed)
                /\ \A i \in 1..(Len(calls) - 1) : callErrs[i] = "nil"
                /\ (cfg.throughputChanged /\ waitErr # "nil" =>
                        /\ calls = <<"UpdateFileSystem">>
                        /\ diags = "waiting for EFS file system update")
                /\ \A i \in 1..Len(calls) :
                      /\ calls[i] \in {"UpdateFileSystem", "PutLifecycleConfiguration",
                                       "UpdateFileSystemProtection"}
                      /\ callErrs[i] # "nil"
                      => /\ i = Len(calls)
                         /\ diags \notin {"nil", "none"}
                         /\ readObs = NoObs)

\* C13 witness: throughput, lifecycle policy and protection changed, and all
\* steps ran to the end of the read
C13_Witness ==
    /\ op = "update" /\ cpc = "returned"
    /\ calls = UpdateOrder
    /\ ObsState(waitObs, "available")
    /\ diags = "nil"

\* the lifecycle step failed after a successful throughput step: no
\* protection call and no read
C13_WitnessAbort ==
    /\ op = "update" /\ cpc = "returned"
    /\ cfg.protectionChanged /\ cfg.protection = "set"
    /\ calls = <<"UpdateFileSystem", "PutLifecycleConfiguration">>
    /\ diags = "putting EFS file system lifecycle configuration"

----------------------------------------------------------------------------
(* RetryConfigContext: the initial delay *)

\* largest number of whole milliseconds in a duration argument
MaxDelayMs == 3

\* time.Millisecond, in nanoseconds (the unit of time.Duration)
Millisecond == 1000000

\* Duration.Milliseconds(): integer division, truncated toward zero
Milliseconds(d) ==
    IF d >= 0 THEN d \div Millisecond ELSE -((-d) \div Millisecond)

\* duration arguments: around every whole millisecond up to the bound, and
\* negative ones
Durations ==
    {k * Millisecond + o : k \in 0..MaxDelayMs, o \in {0, 1, Millisecond - 1}}
    \cup {-1, -Millisecond, -(Millisecond + 1)}

\* fault variant: the upper end is included
Int63n_Inclusive(n) == 0..n

\* rand.Int63n(n): some value of [0, n)
Int63n(n) == 0..(n - 1)

\* the values c.Delay may have when WaitForStateContext is called; the zero
\* value is the Delay field left unset
InitialDelays(delay, delayRand) ==
    LET d1 == IF Milliseconds(delay) > 0 THEN delay ELSE 0 IN
    IF Milliseconds(delayRand) > 0
    THEN {k * Millisecond : k \in Int63n(Milliseconds(delayRand))}
    ELSE {d1}

\* RetryConfigContext sets c.Delay from delay and delayRand
SetDelay ==
    /\ op = "initialDelay"
    /\ cpc = "start"
    /\ cpc' = "returned"
    /\ fnOut' \in InitialDelays(fnArgs.delay, fnArgs.delayRand)
    /\ UNCHANGED <<op, cfg, fnArgs, gpc, ctxDone, wfsVars, waitOut, retryVars,
                   handlerVars>>

InitDelay ==
    /\ op = "initialDelay"
    /\ cfg = NoCfg
    /\ id = ""
    /\ fnArgs \in [delay : Durations, delayRand : Durations]
    /\ fnOut = NoFn
    /\ Idle

NextDelay == SetDelay

SpecDelay == InitDelay /\ [][NextDelay]_vars

\* c.Delay has been computed
DelaySet == op = "initialDelay" /\ cpc = "returned"

\* C14: with delayRand of at least one millisecond, the initial delay is a
\* whole number of milliseconds, at least 0 and below delayRand, whatever
\* delay is; with delayRand below one millisecond, it is delay when delay is at
\* least one millisecond and is the zero value (unset) otherwise.
C14_InitialDelay ==
    DelaySet =>
        IF fnArgs.delayRand >= Millisecond
        THEN /\ fnOut >= 0
             /\ fnOut < fnArgs.delayRand
             /\ fnOut % Millisecond = 0
        ELSE IF fnArgs.delay >= Millisecond
        THEN fnOut = fnArgs.delay
        ELSE fnOut = 0

\* C14 witness: delayRand of 2.000001 ms replaced a delay of 3 ms by 1 ms
C14_Witness ==
    /\ DelaySet
    /\ fnArgs = [delay |-> 3 * Millisecond, delayRand |-> 2 * Millisecond + 1]
    /\ fnOut = Millisecond

\* delayRand below one millisecond: the delay parameter is used as given
C14_WitnessNoJitter ==
    /\ DelaySet
    /\ fnArgs = [delay |-> Millisecond + 1, delayRand |-> Millisecond - 1]
    /\ fnOut = Millisecond + 1

----------------------------------------------------------------------------
(* Lifecycle policies: expand and flatten *)

\* MaxItems of the lifecycle_policy list
MaxItems == 2

\* the keys of a lifecycle_policy block
PolicyKeys ==
    {"transition_to_archive", "transition_to_ia",
     "transition_to_primary_storage_class"}

\* the strings a key may hold: the empty string, or a transition rule
PolicyValues(k) ==
    CASE k = "transition_to_archive" -> {"", "AFTER_90_DAYS"}
      [] k = "transition_to_ia" -> {"", "AFTER_30_DAYS"}
      [] OTHER -> {"", "AFTER_1_ACCESS"}

\* map[string]interface{} values over the keys: any of them may be missing
PolicyMaps ==
    UNION {{m \in [S -> {"", "AFTER_90_DAYS", "AFTER_30_DAYS", "AFTER_1_ACCESS"}] :
               \A k \in S : m[k] \in PolicyValues(k)} : S \in SUBSET PolicyKeys}

\* an interface{} element of a tfList: a map, or a value that is not a map
\* (the nil element of an empty block)
Iface(m) == [isMap |-> TRUE, m |-> m]
NotAMap == [isMap |-> FALSE, m |-> <<>>]
TfElems == {Iface(m) : m \in PolicyMaps} \cup {NotAMap}

\* the lists of at most MaxItems elements
TfLists == UNION {[1..n -> TfElems] : n \in 0..MaxItems}

\* a nil *string
NilPtr == "<nil>"

\* v, ok := tfMap[k].(string)
StringAt(tfMap, k) ==
    IF k \in DOMAIN tfMap THEN [v |-> tfMap[k], ok |-> TRUE]
    ELSE [v |-> "", ok |-> FALSE]

\* fault variant: an empty string is not dropped
expandLifecyclePolicy_KeepsEmpty(tfMap) ==
    LET field(k) == IF StringAt(tfMap, k).ok THEN StringAt(tfMap, k).v ELSE NilPtr
    IN  [isNil |-> FALSE,
         TransitionToArchive |-> field("transition_to_archive"),
         TransitionToIA |-> field("transition_to_ia"),
         TransitionToPrimaryStorageClass |->
             field("transition_to_primary_storage_class")]

\* the body of the loop of expandFileSystemLifecyclePolicies: the
\* efs.LifecyclePolicy built from one map
expandLifecyclePolicy(tfMap) ==
    LET field(k) == IF StringAt(tfMap, k).ok /\ StringAt(tfMap, k).v # ""
                    THEN StringAt(tfMap, k).v ELSE NilPtr
    IN  [isNil |-> FALSE,
         TransitionToArchive |-> field("transition_to_archive"),
         TransitionToIA |-> field("transition_to_ia"),
         TransitionToPrimaryStorageClass |->
             field("transition_to_primary_storage_class")]

\* elements that are not maps are skipped, the others are appended in order
expandFileSystemLifecyclePolicies(tfList) ==
    LET maps == SelectSeq(tfList, LAMBDA e : e.isMap) IN
    [i \in 1..Len(maps) |-> expandLifecyclePolicy(maps[i].m)]

\* the body of the loop of flattenFileSystemLifecyclePolicies: the map built
\* from one efs.LifecyclePolicy
flattenLifecyclePolicy(apiObject) ==
    LET ks == (IF apiObject.TransitionToArchive # NilPtr
               THEN {"transition_to_archive"} ELSE {})
              \cup (IF apiObject.TransitionToIA # NilPtr
                    THEN {"transition_to_ia"} ELSE {})
              \cup (IF apiObject.TransitionToPrimaryStorageClass # NilPtr
                    THEN {"transition_to_primary_storage_class"} ELSE {})
    IN  [k \in ks |->
            CASE k = "transition_to_archive" -> apiObject.TransitionToArchive
              [] k = "transition_to_ia" -> apiObject.TransitionToIA
              [] OTHER -> apiObject.TransitionToPrimaryStorageClass]

\* a nil *efs.LifecyclePolicy
NilPolicy ==
    [isNil |-> TRUE, TransitionToArchive |-> NilPtr, TransitionToIA |-> NilPtr,
     TransitionToPrimaryStorageClass |-> NilPtr]

\* nil objects are skipped, the others are appended in order
flattenFileSystemLifecyclePolicies(apiObjects) ==
    LET objs == SelectSeq(apiObjects, LAMBDA a : ~a.isNil) IN
    [i \in 1..Len(objs) |-> Iface(flattenLifecyclePolicy(objs[i]))]

\* no value computed yet
NoPolicies == [api |-> NoFn, tf |-> NoFn]

\* expandFileSystemLifecyclePolicies is applied to the configured list
ExpandPolicies ==
    /\ op = "policies"
    /\ cpc = "start"
    /\ cpc' = "expanded"
    /\ fnOut' = [fnOut EXCEPT !.api = expandFileSystemLifecyclePolicies(fnArgs)]
    /\ UNCHANGED <<op, cfg, fnArgs, gpc, ctxDone, wfsVars, waitOut, retryVars,
                   handlerVars>>

\* flattenFileSystemLifecyclePolicies is applied to the API objects
FlattenPolicies ==
    /\ op = "policies"
    /\ cpc = "expanded"
    /\ cpc' = "returned"
    /\ fnOut' = [fnOut EXCEPT !.tf = flattenFileSystemLifecyclePolicies(fnOut.api)]
    /\ UNCHANGED <<op, cfg, fnArgs, gpc, ctxDone, wfsVars, waitOut, retryVars,
                   handlerVars>>

InitPolicies ==
    /\ op = "policies"
    /\ cfg = NoCfg
    /\ id = ""
    /\ fnArgs \in TfLists
    /\ fnOut = NoPolicies
    /\ Idle

NextPolicies == ExpandPolicies \/ FlattenPolicies

SpecPolicies == InitPolicies /\ [][NextPolicies]_vars


\* the round trip has been computed
RoundTripDone == op = "policies" /\ cpc = "returned"

\* every element of l is a map
AllMaps(l) == \A i \in 1..Len(l) : l[i].isMap

\* every field of every map of l is absent or a non-empty string
NoEmptyField(l) ==
    \A i \in 1..Len(l) : \A k \in DOMAIN l[i].m : l[i].m[k] # ""

\* the keys of map m that hold a non-empty string
NonEmptyKeys(m) == {k \in DOMAIN m : m[k] # ""}

\* C15: for a list of at most two policy maps whose fields are each absent or
\* a non-empty string, flatten(expand(l)) is l: same length, same order, same
\* keys and values.  For any list of maps, the result has the length of l,
\* and its i-th map is the i-th map of l without the keys that hold the empty
\* string, which expand has left as nil fields.
C15_PoliciesRoundTrip ==
    RoundTripDone /\ AllMaps(fnArgs) =>
        /\ (NoEmptyField(fnArgs) => fnOut.tf = fnArgs)
        /\ Len(fnOut.api) = Len(fnArgs)
        /\ Len(fnOut.tf) = Len(fnArgs)
        /\ \A i \in 1..Len(fnArgs) :
              /\ fnOut.tf[i].isMap
              /\ DOMAIN fnOut.tf[i].m = NonEmptyKeys(fnArgs[i].m)
              /\ \A k \in NonEmptyKeys(fnArgs[i].m) :
                    fnOut.tf[i].m[k] = fnArgs[i].m[k]
              /\ StringAt(fnArgs[i].m, "transition_to_archive").v = "" =>
                    fnOut.api[i].TransitionToArchive = NilPtr
              /\ StringAt(fnArgs[i].m, "transition_to_ia").v = "" =>
                    fnOut.api[i].TransitionToIA = NilPtr
              /\ StringAt(fnArgs[i].m, "transition_to_primary_storage_class").v = "" =>
                    fnOut.api[i].TransitionToPrimaryStorageClass = NilPtr

\* C15 witness: two different maps without empty fields came back unchanged
\* and in order
C15_Witness ==
    /\ RoundTripDone
    /\ fnArgs = <<Iface([k \in {"transition_to_ia"} |-> "AFTER_30_DAYS"]),
                  Iface([k \in {"transition_to_primary_storage_class"} |->
                            "AFTER_1_ACCESS"])>>
    /\ fnOut.tf = fnArgs

\* a field given as the empty string is absent after the round trip
C15_WitnessEmptyDropped ==
    /\ RoundTripDone
    /\ Len(fnArgs) = 1 /\ fnArgs[1].isMap
    /\ DOMAIN fnArgs[1].m = {"transition_to_ia", "transition_to_archive"}
    /\ fnArgs[1].m["transition_to_ia"] = ""
    /\ fnArgs[1].m["transition_to_archive"] = "AFTER_90_DAYS"
    /\ DOMAIN fnOut.tf[1].m = {"transition_to_archive"}

====
